---- MODULE Spec2Model ----
(***************************************************************************)
(* LabSyncOura: the health model (health_lp.py), the report assembler      *)
(* (report_generator.py) and the demonstration driver (main.py).           *)
(*                                                                         *)
(* Numbers.  A Python float is an IEEE-754 binary64 number and is held as  *)
(* the record [neg, m, e] of value (-1)^neg * m * 2^e, where m is an odd   *)
(* natural number written as its digits in base 32768, least significant   *)
(* first; 0.0 is [neg |-> FALSE, m |-> <<>>, e |-> 0].  So 1.0 is          *)
(* [FALSE, <<1>>, 0], 0.75 is [FALSE, <<3>>, -2] and 0.99 is               *)
(* [FALSE, <<9175, 31457, 23592, 126>>, -52].  The arithmetic rounds as    *)
(* the hardware does, to the nearest float, ties to the even mantissa.     *)
(* The float Python reads for a decimal literal is FromMilli of its        *)
(* thousandths: FromMilli(7857) for 7.857.  Dates are day numbers, day 1   *)
(* being the period_start of main.py.                                      *)
(***************************************************************************)
EXTENDS Integers, Sequences, FiniteSets, Bags, TLC

VARIABLES
    target_sleep_hours,   \* HealthLP.target_sleep_hours
    metrics,              \* HealthLP.metrics: sequence of HealthMetric
    sleep_history,        \* HealthLP.sleep_history: sequence of SleepData
    last,                 \* the latest call: [op, result]
    added,                \* history: bag of the SleepData added since the last reset
    calls                 \* generate_report calls in progress on the shared model

vars == <<target_sleep_hours, metrics, sleep_history, last, added, calls>>

-----------------------------------------------------------------------------
(* Bounds of the model. *)

MaxMetrics == 2
MaxSleep == 3

-----------------------------------------------------------------------------
(* Program constants. *)

MAIN_DAYS == 7
SLEEP_DEBT_NAME == "Sleep Debt"

-----------------------------------------------------------------------------
(* Natural numbers of any size, for the mantissas: sequences of digits     *)
(* below Base, least significant first, without a leading zero digit;      *)
(* zero is <<>>.  Base is 2^15 so that a product of two digits fits the    *)
(* 32-bit integers of TLC.                                                 *)

Base == 32768
LimbBits == 15
MantissaBits == 53

Min(a, b) == IF a < b THEN a ELSE b
Max(a, b) == IF a < b THEN b ELSE a

Pow2Table == <<1, 2, 4, 8, 16, 32, 64, 128, 256, 512, 1024, 2048, 4096, 8192, 16384, 32768>>

Pow2(n) == Pow2Table[n + 1]

RECURSIVE LimbBitLen(_)
LimbBitLen(x) == IF x = 0 THEN 0 ELSE 1 + LimbBitLen(x \div 2)

RECURSIVE LimbTrailingZeros(_)
LimbTrailingZeros(x) == IF x % 2 = 1 THEN 0 ELSE 1 + LimbTrailingZeros(x \div 2)

Limb(a, i) == IF i >= 1 /\ i <= Len(a) THEN a[i] ELSE 0

RECURSIVE BigTrim(_)
BigTrim(a) ==
    IF a = <<>> THEN a
    ELSE IF a[Len(a)] # 0 THEN a
    ELSE BigTrim(SubSeq(a, 1, Len(a) - 1))

BigFromInt(k) == BigTrim(<<k % Base, (k \div Base) % Base, k \div (Base * Base)>>)

BigBitLen(a) ==
    IF a = <<>> THEN 0 ELSE LimbBits * (Len(a) - 1) + LimbBitLen(a[Len(a)])

RECURSIVE BigCmpAt(_, _, _)
BigCmpAt(a, b, i) ==
    IF i = 0 THEN 0
    ELSE IF a[i] # b[i] THEN (IF a[i] < b[i] THEN -1 ELSE 1)
    ELSE BigCmpAt(a, b, i - 1)

BigCmp(a, b) ==
    IF Len(a) # Len(b) THEN (IF Len(a) < Len(b) THEN -1 ELSE 1)
    ELSE BigCmpAt(a, b, Len(a))

RECURSIVE BigAddFrom(_, _, _, _)
BigAddFrom(a, b, i, carry) ==
    IF i > Len(a) /\ i > Len(b) THEN (IF carry = 0 THEN <<>> ELSE <<carry>>)
    ELSE LET s == Limb(a, i) + Limb(b, i) + carry
         IN  <<s % Base>> \o BigAddFrom(a, b, i + 1, s \div Base)

BigAdd(a, b) == BigAddFrom(a, b, 1, 0)

RECURSIVE BigSubFrom(_, _, _, _)
BigSubFrom(a, b, i, borrow) ==
    IF i > Len(a) THEN <<>>
    ELSE LET d == a[i] - Limb(b, i) - borrow
         IN  <<IF d < 0 THEN d + Base ELSE d>>
                \o BigSubFrom(a, b, i + 1, IF d < 0 THEN 1 ELSE 0)

BigSub(a, b) == BigTrim(BigSubFrom(a, b, 1, 0))

RECURSIVE BigMulSmallFrom(_, _, _, _)
BigMulSmallFrom(a, k, i, carry) ==
    IF i > Len(a) THEN (IF carry = 0 THEN <<>> ELSE <<carry>>)
    ELSE LET p == a[i] * k + carry
         IN  <<p % Base>> \o BigMulSmallFrom(a, k, i + 1, p \div Base)

BigMulSmall(a, k) ==
    IF k = 0 THEN <<>> ELSE IF k = 1 THEN a ELSE BigMulSmallFrom(a, k, 1, 0)

BigShiftLimbs(a, n) ==
    IF a = <<>> \/ n = 0 THEN a ELSE [i \in 1..n |-> 0] \o a

RECURSIVE BigMulFrom(_, _, _)
BigMulFrom(a, b, j) ==
    IF j > Len(b) THEN <<>>
    ELSE BigAdd(BigShiftLimbs(BigMulSmall(a, b[j]), j - 1), BigMulFrom(a, b, j + 1))

BigMul(a, b) == BigMulFrom(a, b, 1)

(* a * 2^n and the floor of a / 2^n *)
BigShl(a, n) ==
    IF n = 0 THEN a
    ELSE BigShiftLimbs(BigMulSmall(a, Pow2(n % LimbBits)), n \div LimbBits)

BigShr(a, n) ==
    LET q == n \div LimbBits
        r == n % LimbBits
        len == Len(a) - q
    IN  IF n = 0 THEN a
        ELSE IF len <= 0 THEN <<>>
        ELSE BigTrim([i \in 1..len |->
                 (a[i + q] \div Pow2(r))
                   + (Limb(a, i + q + 1) % Pow2(r)) * Pow2(LimbBits - r)])

(* a modulo 2^n *)
BigLowBits(a, n) ==
    LET q == n \div LimbBits
        r == n % LimbBits
    IN  BigTrim([i \in 1..Min(Len(a), q + 1) |->
            IF i <= q THEN a[i] ELSE a[i] % Pow2(r)])

RECURSIVE BigTrailingZerosFrom(_, _)
BigTrailingZerosFrom(a, i) ==
    IF a[i] # 0 THEN LimbTrailingZeros(a[i])
    ELSE LimbBits + BigTrailingZerosFrom(a, i + 1)

BigTrailingZeros(a) == BigTrailingZerosFrom(a, 1)

(* Long division n / d, for a divisor whose top digit is at least Base/2:  *)
(* the digit estimated from the top digits is at most two too large.       *)
RECURSIVE QuotientDigit(_, _, _)
QuotientDigit(r, d, est) ==
    IF BigCmp(BigMulSmall(d, est), r) <= 0 THEN est ELSE QuotientDigit(r, d, est - 1)

RECURSIVE BigDivModFrom(_, _, _, _, _)
BigDivModFrom(n, d, i, r, q) ==
    IF i = 0 THEN [q |-> BigTrim(q), r |-> r]
    ELSE LET r1 == BigTrim(<<n[i]>> \o r)
             top == Limb(r1, Len(d) + 1) * Base + Limb(r1, Len(d))
             digit == QuotientDigit(r1, d, Min(Base - 1, top \div d[Len(d)]))
         IN  BigDivModFrom(n, d, i - 1, BigSub(r1, BigMulSmall(d, digit)),
                           <<digit>> \o q)

BigDivMod(n, d) == BigDivModFrom(n, d, Len(n), <<>>, <<>>)

-----------------------------------------------------------------------------
(* Python float: IEEE-754 binary64, round to nearest, ties to even.  The   *)
(* values of the program stay far from the ends of the exponent range, so  *)
(* overflow and subnormal numbers are left out; 0.0 carries no sign.       *)

Zero == [neg |-> FALSE, m |-> <<>>, e |-> 0]

(* m * 2^e with the mantissa made odd. *)
Canonical(neg, m, e) ==
    IF m = <<>> THEN Zero
    ELSE LET z == BigTrailingZeros(m)
         IN  [neg |-> neg, m |-> BigShr(m, z), e |-> e + z]

(* The float nearest to (m + f) * 2^e, where 0 <= f < 1 and sticky tells   *)
(* whether f > 0: the mantissa is cut to 53 bits and rounded on the bits   *)
(* cut off.  With sticky set, m has more than 53 bits.                     *)
RoundToDouble(neg, m, e, sticky) ==
    LET len == BigBitLen(m)
    IN  IF len <= MantissaBits THEN Canonical(neg, m, e)
        ELSE LET shift == len - MantissaBits
                 q == BigShr(m, shift)
                 c == BigCmp(BigLowBits(m, shift), BigShl(<<1>>, shift - 1))
                 up == c > 0 \/ (c = 0 /\ (sticky \/ q[1] % 2 = 1))
             IN  Canonical(neg, IF up THEN BigAdd(q, <<1>>) ELSE q, e + shift)

(* float(k) of an int k: the float of a natural number below 2^45. *)
FromInt(k) == Canonical(FALSE, BigFromInt(k), 0)

FNeg(x) == IF x = Zero THEN Zero ELSE [x EXCEPT !.neg = ~x.neg]

MagCmp(x, y) ==
    LET tx == BigBitLen(x.m) + x.e
        ty == BigBitLen(y.m) + y.e
        e == Min(x.e, y.e)
    IN  IF tx # ty THEN (IF tx < ty THEN -1 ELSE 1)
        ELSE BigCmp(BigShl(x.m, x.e - e), BigShl(y.m, y.e - e))

FCmp(x, y) ==
    IF x = y THEN 0
    ELSE IF x = Zero THEN (IF y.neg THEN 1 ELSE -1)
    ELSE IF y = Zero THEN (IF x.neg THEN -1 ELSE 1)
    ELSE IF x.neg # y.neg THEN (IF x.neg THEN -1 ELSE 1)
    ELSE IF x.neg THEN -MagCmp(x, y) ELSE MagCmp(x, y)

FLt(x, y) == FCmp(x, y) < 0
FLe(x, y) == FCmp(x, y) <= 0
FGt(x, y) == FCmp(x, y) > 0
FGe(x, y) == FCmp(x, y) >= 0

(* x + y without rounding: the exact sum of two dyadic numbers. *)
ExactAdd(x, y) ==
    IF x = Zero THEN y
    ELSE IF y = Zero THEN x
    ELSE LET e == Min(x.e, y.e)
             a == BigShl(x.m, x.e - e)
             b == BigShl(y.m, y.e - e)
             c == BigCmp(a, b)
         IN  IF x.neg = y.neg THEN Canonical(x.neg, BigAdd(a, b), e)
             ELSE IF c = 0 THEN Zero
             ELSE IF c > 0 THEN Canonical(x.neg, BigSub(a, b), e)
             ELSE Canonical(y.neg, BigSub(b, a), e)


FAdd(x, y) ==
    IF x = Zero THEN y
    ELSE IF y = Zero THEN x
    ELSE LET sum == ExactAdd(x, y)
         IN  RoundToDouble(sum.neg, sum.m, sum.e, FALSE)

FSub(x, y) == FAdd(x, FNeg(y))

FMul(x, y) ==
    IF x = Zero \/ y = Zero THEN Zero
    ELSE RoundToDouble(x.neg # y.neg, BigMul(x.m, y.m), x.e + y.e, FALSE)

(* x / y for y # 0.0: the divisor is scaled to a full top digit and the    *)
(* dividend to a quotient of at least 55 bits; the remainder is the sticky *)
(* bit.                                                                    *)
FDiv(x, y) ==
    IF x = Zero THEN Zero
    ELSE LET k == (LimbBits - (BigBitLen(y.m) % LimbBits)) % LimbBits
             d == BigShl(y.m, k)
             s == Max(0, BigBitLen(d) + MantissaBits + 2 - BigBitLen(x.m))
             qr == BigDivMod(BigShl(x.m, s), d)
         IN  RoundToDouble(x.neg # y.neg, qr.q, x.e - y.e - s + k, qr.r # <<>>)

(* The float of the decimal literal k/1000. *)
FromMilli(k) == FDiv(FromInt(k), FromInt(1000))

(* max(a, b) and min(a, b) of Python: the first argument unless the second *)
(* is strictly larger (smaller).                                           *)
PyMax(a, b) == IF FGt(b, a) THEN b ELSE a
PyMin(a, b) == IF FLt(b, a) THEN b ELSE a

(* Floats of the decimal literals of the source and of the inputs, written *)
(* out: F_7_857 is the float of 7.857.  LiteralsAgree states them as       *)
(* conversions.                                                            *)

Lit(m, e) == [neg |-> FALSE, m |-> m, e |-> e]

F_0_0 == Zero
F_0_1 == Lit(<<19661, 6553, 13107, 102>>, -55)
F_0_3 == Lit(<<13107, 26214, 19660, 153>>, -54)
F_0_4 == Lit(<<19661, 6553, 13107, 102>>, -53)
F_0_5 == Lit(<<1>>, -1)
F_0_7 == Lit(<<13107, 26214, 19660, 89>>, -52)
F_0_99 == Lit(<<9175, 31457, 23592, 126>>, -52)
F_1_0 == Lit(<<1>>, 0)
F_2_0 == Lit(<<1>>, 1)
F_3_0 == Lit(<<3>>, 0)
F_4_0 == Lit(<<1>>, 2)
F_5_2 == Lit(<<19661, 6553, 13107, 166>>, -50)
F_6_0 == Lit(<<3>>, 1)
F_6_8 == Lit(<<13107, 26214, 19660, 217>>, -50)
F_7_0 == Lit(<<7>>, 0)
F_7_5 == Lit(<<15>>, -1)
F_7_67 == Lit(<<9175, 31457, 23592, 122>>, -49)
F_7_857 == Lit(<<12321, 20709, 13893, 251>>, -50)
F_7_858 == Lit(<<24379, 6815, 14942, 251>>, -50)
F_8_0 == Lit(<<1>>, 3)
F_8_5 == Lit(<<17>>, -1)
F_9_0 == Lit(<<9>>, 0)
F_10_0 == Lit(<<5>>, 1)
F_15_0 == Lit(<<15>>, 0)
F_20_0 == Lit(<<5>>, 2)
F_25_0 == Lit(<<25>>, 0)
F_30_0 == Lit(<<15>>, 1)
F_40_0 == Lit(<<5>>, 3)
F_42_0 == Lit(<<21>>, 1)
F_60_0 == Lit(<<15>>, 2)
F_65_0 == Lit(<<65>>, 0)
F_70_0 == Lit(<<35>>, 1)
F_72_0 == Lit(<<9>>, 3)
F_85_0 == Lit(<<85>>, 0)
F_90_0 == Lit(<<45>>, 1)
F_100_0 == Lit(<<25>>, 2)
F_120_0 == Lit(<<15>>, 3)
F_150_0 == Lit(<<75>>, 1)
F_185_0 == Lit(<<185>>, 0)
F_200_0 == Lit(<<25>>, 3)
F_2000_0 == Lit(<<125>>, 4)
F_2100_0 == Lit(<<525>>, 2)
F_3000_0 == Lit(<<375>>, 3)
F_8500_0 == Lit(<<2125>>, 2)
F_10000_0 == Lit(<<625>>, 4)
F_20000_0 == Lit(<<625>>, 5)

(* Each literal with its value in thousandths. *)
LiteralThousandths ==
    <<<<F_0_0, 0>>, <<F_0_1, 100>>, <<F_0_3, 300>>,
      <<F_0_4, 400>>, <<F_0_5, 500>>, <<F_0_7, 700>>,
      <<F_0_99, 990>>, <<F_1_0, 1000>>, <<F_2_0, 2000>>,
      <<F_3_0, 3000>>, <<F_4_0, 4000>>, <<F_5_2, 5200>>,
      <<F_6_0, 6000>>, <<F_6_8, 6800>>, <<F_7_0, 7000>>,
      <<F_7_5, 7500>>, <<F_7_67, 7670>>, <<F_7_857, 7857>>,
      <<F_7_858, 7858>>, <<F_8_0, 8000>>, <<F_8_5, 8500>>,
      <<F_9_0, 9000>>, <<F_10_0, 10000>>, <<F_15_0, 15000>>,
      <<F_20_0, 20000>>, <<F_25_0, 25000>>, <<F_30_0, 30000>>,
      <<F_40_0, 40000>>, <<F_42_0, 42000>>, <<F_60_0, 60000>>,
      <<F_65_0, 65000>>, <<F_70_0, 70000>>, <<F_72_0, 72000>>,
      <<F_85_0, 85000>>, <<F_90_0, 90000>>, <<F_100_0, 100000>>,
      <<F_120_0, 120000>>, <<F_150_0, 150000>>, <<F_185_0, 185000>>,
      <<F_200_0, 200000>>, <<F_2000_0, 2000000>>, <<F_2100_0, 2100000>>,
      <<F_3000_0, 3000000>>, <<F_8500_0, 8500000>>, <<F_10000_0, 10000000>>,
      <<F_20000_0, 20000000>>>>

LiteralsAgree ==
    \A i \in 1..Len(LiteralThousandths) :
        LiteralThousandths[i][1] = FromMilli(LiteralThousandths[i][2])

TARGET_SLEEP_HOURS_DEFAULT == F_8_0
MAX_ACCEPTABLE_DEBT_DEFAULT == F_0_99
SLEEP_QUALITY_DEFAULT == F_70_0
SLEEP_EFFICIENCY_DEFAULT == F_85_0

-----------------------------------------------------------------------------
(* health_lp.py: HealthMetric *)

HealthMetric(name, value, lower_threshold, upper_threshold, category) ==
    [name |-> name, value |-> value, lower_threshold |-> lower_threshold,
     upper_threshold |-> upper_threshold, category |-> category,
     is_flagged |-> FALSE]

check_flag(m) ==
    [m EXCEPT !.is_flagged =
        (FLt(m.value, m.lower_threshold) \/ FGt(m.value, m.upper_threshold))]

(* health_lp.py: SleepData *)

SleepData(date, sleep_duration_hours, sleep_quality_score, sleep_efficiency) ==
    [date |-> date, sleep_duration_hours |-> sleep_duration_hours,
     sleep_quality_score |-> sleep_quality_score,
     sleep_efficiency |-> sleep_efficiency]

-----------------------------------------------------------------------------
(* list.sort(key=lambda x: x.date): a stable sort, equal dates keep their  *)
(* relative order.                                                         *)

RECURSIVE InsertByDate(_, _)
InsertByDate(sorted, x) ==
    IF sorted = <<>> THEN <<x>>
    ELSE IF sorted[Len(sorted)].date <= x.date THEN Append(sorted, x)
    ELSE Append(InsertByDate(SubSeq(sorted, 1, Len(sorted) - 1), x),
                sorted[Len(sorted)])

RECURSIVE SortFrom(_, _, _)
SortFrom(s, i, acc) ==
    IF i > Len(s) THEN acc ELSE SortFrom(s, i + 1, InsertByDate(acc, s[i]))

(* Variant: the sort after the append left out. *)
sort_skipped(s) == s

sort_by_date(s) == SortFrom(s, 1, <<>>)

-----------------------------------------------------------------------------
(* HealthLP.calculate_sleep_debt *)

InPeriod(s, start_date, end_date) == start_date <= s.date /\ s.date <= end_date

(* Variant: the end of the period excluded. *)
InPeriodOpenEnd(s, start_date, end_date) == start_date <= s.date /\ s.date < end_date

period_filter_open_end(history, start_date, end_date) ==
    SelectSeq(history, LAMBDA s : InPeriodOpenEnd(s, start_date, end_date))

period_filter(history, start_date, end_date) ==
    SelectSeq(history, LAMBDA s : InPeriod(s, start_date, end_date))

RECURSIVE DebtLoop(_, _, _, _)
DebtLoop(period_sleep, target, i, total_debt) ==
    IF i > Len(period_sleep) THEN total_debt
    ELSE LET deficit == FSub(target, period_sleep[i].sleep_duration_hours)
         IN  DebtLoop(period_sleep, target, i + 1,
                      IF FGt(deficit, F_0_0) THEN FAdd(total_debt, deficit)
                      ELSE total_debt)

calculate_sleep_debt(history, target, start_date, end_date) ==
    DebtLoop(period_filter(history, start_date, end_date), target, 1, F_0_0)

(* HealthLP.get_sleep_debt_metric *)

(* Variant: an upper threshold of 1.0 in place of the 0.99 default. *)
get_sleep_debt_metric_max_one(history, target, start_date, end_date, max_acceptable_debt) ==
    check_flag(HealthMetric(SLEEP_DEBT_NAME,
                 calculate_sleep_debt(history, target, start_date, end_date),
                 F_0_0, F_1_0, "Sleep"))

get_sleep_debt_metric(history, target, start_date, end_date, max_acceptable_debt) ==
    check_flag(HealthMetric(SLEEP_DEBT_NAME,
                 calculate_sleep_debt(history, target, start_date, end_date),
                 F_0_0, max_acceptable_debt, "Sleep"))

-----------------------------------------------------------------------------
(* HealthLP.evaluate_all_metrics.  The returned dict is a sequence of      *)
(* [category, metrics] entries in key insertion order.                     *)

KeyIndex(d, category) ==
    LET hits == {k \in 1..Len(d) : d[k].category = category}
    IN  IF hits = {} THEN 0 ELSE CHOOSE k \in hits : TRUE

RECURSIVE EvaluateLoop(_, _, _)
EvaluateLoop(ms, i, flagged_by_category) ==
    IF i > Len(ms) THEN flagged_by_category
    ELSE LET metric == ms[i]
             k == KeyIndex(flagged_by_category, metric.category)
         IN  IF ~metric.is_flagged
             THEN EvaluateLoop(ms, i + 1, flagged_by_category)
             ELSE IF k = 0
             THEN EvaluateLoop(ms, i + 1,
                      Append(flagged_by_category,
                             [category |-> metric.category, metrics |-> <<metric>>]))
             ELSE EvaluateLoop(ms, i + 1,
                      [flagged_by_category EXCEPT
                          ![k].metrics = Append(@, metric)])

(* Variant: a later flagged metric replaces its category's list. *)
RECURSIVE EvaluateLoopOverwrite(_, _, _)
EvaluateLoopOverwrite(ms, i, flagged_by_category) ==
    IF i > Len(ms) THEN flagged_by_category
    ELSE LET metric == ms[i]
             k == KeyIndex(flagged_by_category, metric.category)
         IN  IF ~metric.is_flagged
             THEN EvaluateLoopOverwrite(ms, i + 1, flagged_by_category)
             ELSE IF k = 0
             THEN EvaluateLoopOverwrite(ms, i + 1,
                      Append(flagged_by_category,
                             [category |-> metric.category, metrics |-> <<metric>>]))
             ELSE EvaluateLoopOverwrite(ms, i + 1,
                      [flagged_by_category EXCEPT ![k].metrics = <<metric>>])

evaluate_all_metrics_overwrite(ms) == EvaluateLoopOverwrite(ms, 1, <<>>)

evaluate_all_metrics(ms) == EvaluateLoop(ms, 1, <<>>)

(* HealthLP.get_total_flagged_count *)

RECURSIVE CountFlagged(_, _)
CountFlagged(ms, i) ==
    IF i > Len(ms) THEN 0
    ELSE (IF ms[i].is_flagged THEN 1 ELSE 0) + CountFlagged(ms, i + 1)

get_total_flagged_count(ms) == CountFlagged(ms, 1)


-----------------------------------------------------------------------------
(* HealthLP.optimize_health_score *)

category_weight(category) ==
    CASE category = "Sleep" -> F_0_3
      [] category = "Cardiovascular" -> F_0_3
      [] category = "Activity" -> F_0_4
      [] OTHER -> F_0_1

raw_normalized(metric) ==
    FDiv(FSub(metric.value, metric.lower_threshold),
         FSub(metric.upper_threshold, metric.lower_threshold))

(* Variant: the clamp to [0, 1] left out. *)
normalized_value_unclamped(metric) == raw_normalized(metric)

normalized_value(metric) == PyMax(F_0_0, PyMin(F_1_0, raw_normalized(metric)))

(* Variant: a flagged metric keeps its continuous normalized score. *)
metric_score_continuous(metric) ==
    IF FGt(metric.upper_threshold, metric.lower_threshold)
    THEN normalized_value(metric)
    ELSE IF ~metric.is_flagged THEN F_1_0 ELSE F_0_5

metric_score(metric) ==
    IF FGt(metric.upper_threshold, metric.lower_threshold)
    THEN LET normalized == normalized_value(metric)
         IN  IF metric.is_flagged
             THEN (IF FLt(normalized, F_0_5) THEN F_0_3 ELSE F_0_7)
             ELSE normalized
    ELSE IF ~metric.is_flagged THEN F_1_0 ELSE F_0_5

(* The loop over self.metrics (199-219) and, past the last metric, the     *)
(* weighted average it returns (221-224).                                  *)
RECURSIVE ScoreLoop(_, _, _, _)
ScoreLoop(ms, i, total_score, total_weight) ==
    IF i > Len(ms)
    THEN (IF total_weight = F_0_0 THEN F_100_0
          ELSE FMul(FDiv(total_score, total_weight), F_100_0))
    ELSE LET weight == category_weight(ms[i].category)
             score == metric_score(ms[i])
         IN  ScoreLoop(ms, i + 1,
                       FAdd(total_score, FMul(score, weight)),
                       FAdd(total_weight, weight))

optimize_health_score(ms) ==
    IF ms = <<>> THEN F_100_0 ELSE ScoreLoop(ms, 1, F_0_0, F_0_0)

-----------------------------------------------------------------------------
(* ReportGenerator.generate_report *)

(* Variant: the scan never finds the name. *)
existing_sleep_debt_idx_none(ms) == 0

(* Variant: the last metric named "Sleep Debt" in place of the first. *)
existing_sleep_debt_idx_last(ms) ==
    LET hits == {i \in 1..Len(ms) : ms[i].name = SLEEP_DEBT_NAME}
    IN  IF hits = {} THEN 0
        ELSE CHOOSE i \in hits : \A j \in hits : i >= j

existing_sleep_debt_idx(ms) ==
    LET hits == {i \in 1..Len(ms) : ms[i].name = SLEEP_DEBT_NAME}
    IN  IF hits = {} THEN 0
        ELSE CHOOSE i \in hits : \A j \in hits : i <= j

(* Variant: the new metric appended without the scan. *)
upsert_always_append(ms, sleep_debt_metric) == Append(ms, sleep_debt_metric)

upsert_sleep_debt(ms, sleep_debt_metric) ==
    LET idx == existing_sleep_debt_idx(ms)
    IN  IF idx # 0 THEN [ms EXCEPT ![idx] = sleep_debt_metric]
        ELSE Append(ms, sleep_debt_metric)

NoReference == [given |-> FALSE]

reference_info(reference) ==
    IF reference.given
    THEN [given |-> TRUE, start |-> reference.start, end |-> reference.end,
          days |-> (reference.end - reference.start) + 1]
    ELSE NoReference

build_report(ms, sleep_debt_metric, target, period_start, period_end, reference) ==
    [period |-> [start |-> period_start, end |-> period_end,
                 days |-> (period_end - period_start) + 1],
     reference_period |-> reference_info(reference),
     total_flagged |-> get_total_flagged_count(ms),
     flagged_by_category |-> evaluate_all_metrics(ms),
     health_score |-> optimize_health_score(ms),
     sleep_debt |-> [value |-> sleep_debt_metric.value,
                     is_flagged |-> sleep_debt_metric.is_flagged,
                     target |-> target]]

(* Variant: the report figures computed before the upsert. *)
generate_report_before_upsert(ms, history, target, period_start, period_end, reference) ==
    LET sleep_debt_metric ==
            get_sleep_debt_metric(history, target, period_start, period_end,
                                  MAX_ACCEPTABLE_DEBT_DEFAULT)
    IN  [metrics |-> upsert_sleep_debt(ms, sleep_debt_metric),
         report |-> build_report(ms, sleep_debt_metric, target,
                                 period_start, period_end, reference)]

generate_report(ms, history, target, period_start, period_end, reference) ==
    LET sleep_debt_metric ==
            get_sleep_debt_metric(history, target, period_start, period_end,
                                  MAX_ACCEPTABLE_DEBT_DEFAULT)
        ms2 == upsert_sleep_debt(ms, sleep_debt_metric)
    IN  [metrics |-> ms2,
         report |-> build_report(ms2, sleep_debt_metric, target,
                                 period_start, period_end, reference)]


-----------------------------------------------------------------------------
(* Inputs.  The reference period is copied into the report and read by    *)
(* nothing else; it is drawn from the absent case (both arguments None).   *)

Dates == {1, 2}
Targets == {TARGET_SLEEP_HOURS_DEFAULT}
SleepHours == {F_7_67, F_8_5}
References == {NoReference}

Names == {SLEEP_DEBT_NAME, "Steps"}
Categories == {"Activity"}
Values == {F_1_0, F_3_0}
Lowers == {F_0_0}
Uppers == {F_2_0}

ScoreNames == {"Steps"}
ScoreCategories == {"Activity", "Mood"}
ScoreValues == {F_0_3, F_3_0}
ScoreLowers == {F_0_1, F_2_0}
ScoreUppers == {F_0_5, F_4_0}

NoResult == [none |-> TRUE]

(* The local variables of one generate_report call and where it stands. *)
Callers == {1, 2}

IdleFrame ==
    [pc |-> "idle", period_start |-> 0, period_end |-> 0,
     sleep_debt_metric |-> NoResult, existing_sleep_debt_idx |-> 0,
     flagged_by_category |-> <<>>, total_flagged |-> 0]

NoCalls == [serialized |-> TRUE, frames |-> [c \in Callers |-> IdleFrame]]

-----------------------------------------------------------------------------
(* State after HealthLP.__init__ *)

Init ==
    /\ LiteralsAgree
    /\ target_sleep_hours \in Targets
    /\ metrics = <<>>
    /\ sleep_history = <<>>
    /\ last = [op |-> "init", result |-> NoResult]
    /\ added = EmptyBag
    /\ calls = NoCalls

(* HealthLP.add_metric *)

add_metric(ms, name, value, lower_threshold, upper_threshold, category) ==
    LET metric == check_flag(HealthMetric(name, value, lower_threshold,
                                          upper_threshold, category))
    IN  [metrics |-> Append(ms, metric), result |-> metric]

AddMetricFrom(names, values, lowers, uppers, categories) ==
    /\ Len(metrics) < MaxMetrics
    /\ \E name \in names, value \in values, lower \in lowers,
          upper \in uppers, category \in categories :
          LET r == add_metric(metrics, name, value, lower, upper, category)
          IN  /\ metrics' = r.metrics
              /\ last' = [op |-> "add_metric", result |-> r.result]
    /\ UNCHANGED <<calls, target_sleep_hours, sleep_history, added>>

AddMetric == AddMetricFrom(Names, Values, Lowers, Uppers, Categories)

(* HealthLP.add_sleep_data *)

add_sleep_data(history, date, sleep_duration_hours, sleep_quality_score, sleep_efficiency) ==
    sort_by_date(Append(history,
        SleepData(date, sleep_duration_hours, sleep_quality_score, sleep_efficiency)))

AddSleepData ==
    /\ Len(sleep_history) < MaxSleep
    /\ \E date \in Dates, hours \in SleepHours :
          /\ sleep_history' = add_sleep_data(sleep_history, date, hours,
                                  SLEEP_QUALITY_DEFAULT, SLEEP_EFFICIENCY_DEFAULT)
          /\ added' = added (+) SetToBag({SleepData(date, hours,
                                  SLEEP_QUALITY_DEFAULT, SLEEP_EFFICIENCY_DEFAULT)})
    /\ last' = [op |-> "add_sleep_data", result |-> NoResult]
    /\ UNCHANGED <<calls, target_sleep_hours, metrics>>

(* ReportGenerator.generate_report on the shared model *)

GenerateReport ==
    /\ \E period_start \in Dates, period_end \in Dates, reference \in References :
          \E r \in {generate_report(metrics, sleep_history, target_sleep_hours,
                                     period_start, period_end, reference)} :
              /\ metrics' = r.metrics
              /\ last' = [op |-> "generate_report", result |-> r.report]
    /\ UNCHANGED <<calls, target_sleep_hours, sleep_history, added>>

(* HealthLP.reset *)

Reset ==
    /\ metrics' = <<>>
    /\ sleep_history' = <<>>
    /\ added' = EmptyBag
    /\ last' = [op |-> "reset", result |-> NoResult]
    /\ UNCHANGED <<calls, target_sleep_hours>>

Next == AddMetric \/ AddSleepData \/ GenerateReport \/ Reset

Spec == Init /\ [][Next]_vars

-----------------------------------------------------------------------------
(* The metric store on its own: add_metric, the queries, and the changes a *)
(* caller can make to a HealthMetric it holds.  add_metric returns the     *)
(* stored object itself and HealthMetric is a plain dataclass, so          *)
(* metric.value = v assigns the field and runs no other code; the flag is  *)
(* recomputed only by an explicit metric.check_flag().                     *)

AddScoreMetric ==
    AddMetricFrom(ScoreNames, ScoreValues, ScoreLowers, ScoreUppers, ScoreCategories)

SetValue ==
    /\ \E i \in 1..Len(metrics), value \in ScoreValues :
          metrics' = [metrics EXCEPT ![i].value = value]
    /\ last' = [op |-> "set_value", result |-> NoResult]
    /\ UNCHANGED <<calls, target_sleep_hours, sleep_history, added>>

SetLowerThreshold ==
    /\ \E i \in 1..Len(metrics), lower \in ScoreLowers :
          metrics' = [metrics EXCEPT ![i].lower_threshold = lower]
    /\ last' = [op |-> "set_lower_threshold", result |-> NoResult]
    /\ UNCHANGED <<calls, target_sleep_hours, sleep_history, added>>

SetUpperThreshold ==
    /\ \E i \in 1..Len(metrics), upper \in ScoreUppers :
          metrics' = [metrics EXCEPT ![i].upper_threshold = upper]
    /\ last' = [op |-> "set_upper_threshold", result |-> NoResult]
    /\ UNCHANGED <<calls, target_sleep_hours, sleep_history, added>>

CheckFlag ==
    /\ \E i \in 1..Len(metrics) :
          /\ metrics' = [metrics EXCEPT ![i] = check_flag(@)]
          /\ last' = [op |-> "check_flag", result |-> check_flag(metrics[i]).is_flagged]
    /\ UNCHANGED <<calls, target_sleep_hours, sleep_history, added>>

OptimizeHealthScore ==
    /\ last' = [op |-> "optimize_health_score",
                result |-> optimize_health_score(metrics)]
    /\ UNCHANGED <<calls, target_sleep_hours, metrics, sleep_history, added>>

EvaluateAllMetrics ==
    /\ last' = [op |-> "evaluate_all_metrics",
                result |-> evaluate_all_metrics(metrics)]
    /\ UNCHANGED <<calls, target_sleep_hours, metrics, sleep_history, added>>

GetTotalFlaggedCount ==
    /\ last' = [op |-> "get_total_flagged_count",
                result |-> get_total_flagged_count(metrics)]
    /\ UNCHANGED <<calls, target_sleep_hours, metrics, sleep_history, added>>

NextStore ==
    \/ AddScoreMetric
    \/ SetValue
    \/ SetLowerThreshold
    \/ SetUpperThreshold
    \/ CheckFlag
    \/ OptimizeHealthScore
    \/ EvaluateAllMetrics
    \/ GetTotalFlaggedCount
    \/ Reset

SpecStore == Init /\ [][NextStore]_vars

-----------------------------------------------------------------------------
(* main.py, main(): HealthLP(target_sleep_hours=8.0) (13), the loop that   *)
(* adds one sleep record per day of the period (23-33), the ten add_metric *)
(* calls (36-45), generate_report for the period and the reference period  *)
(* (48-56) and the queries of the verification printout (72-82).  The two  *)
(* format calls (59-66) and the prints read the report and the model and   *)
(* change neither.  The position in main() is told by the latest call and  *)
(* the lengths of the ledger and the store.  The sleep_hours literal of the *)
(* loop, 7.857 in main.py, is drawn from MainSleepHours on the first pass  *)
(* and is the same on every later pass.                                    *)

MainSleepHours ==
    {F_7_857, F_7_858, F_7_0, F_7_5, TARGET_SLEEP_HOURS_DEFAULT, F_8_5}

MAIN_PERIOD_START == 1
MAIN_REFERENCE_START == -29
MAIN_REFERENCE_END == 1

MainReference ==
    [given |-> TRUE, start |-> MAIN_REFERENCE_START, end |-> MAIN_REFERENCE_END]

MainMetric(name, value, lower_threshold, upper_threshold, category) ==
    [name |-> name, value |-> value, lower_threshold |-> lower_threshold,
     upper_threshold |-> upper_threshold, category |-> category]

MAIN_METRICS ==
    <<MainMetric("Resting Heart Rate", F_72_0, F_60_0, F_100_0, "Cardiovascular"),
      MainMetric("Max Heart Rate", F_185_0, F_150_0, F_200_0, "Cardiovascular"),
      MainMetric("Steps", F_8500_0, F_10000_0, F_20000_0, "Activity"),
      MainMetric("Active Minutes", F_25_0, F_30_0, F_120_0, "Activity"),
      MainMetric("Calories Burned", F_2100_0, F_2000_0, F_3000_0, "Activity"),
      MainMetric("Sleep Duration", F_6_8, F_7_0, F_9_0, "Sleep"),
      MainMetric("Sleep Quality", F_65_0, F_70_0, F_100_0, "Sleep"),
      MainMetric("Distance", F_5_2, F_6_0, F_15_0, "Activity"),
      MainMetric("VO2 Max", F_42_0, F_40_0, F_60_0, "Cardiovascular"),
      MainMetric("Exercise Duration", F_20_0, F_30_0, F_90_0, "Activity")>>

InitMain ==
    /\ LiteralsAgree
    /\ target_sleep_hours = TARGET_SLEEP_HOURS_DEFAULT
    /\ metrics = <<>>
    /\ sleep_history = <<>>
    /\ last = [op |-> "init", result |-> NoResult]
    /\ added = EmptyBag
    /\ calls = NoCalls

MainAddSleepData ==
    /\ last.op \in {"init", "add_sleep_data"}
    /\ Len(sleep_history) < MAIN_DAYS
    /\ \E sleep_hours \in MainSleepHours :
          /\ sleep_history # <<>> =>
                 sleep_hours = sleep_history[1].sleep_duration_hours
          /\ LET i == Len(sleep_history)
                 date == MAIN_PERIOD_START + i
                 quality == FAdd(SLEEP_QUALITY_DEFAULT,
                                 IF i % 2 = 0 THEN F_0_0 ELSE F_10_0)
             IN  /\ sleep_history' = add_sleep_data(sleep_history, date, sleep_hours,
                                         quality, SLEEP_EFFICIENCY_DEFAULT)
                 /\ added' = added (+) SetToBag({SleepData(date, sleep_hours,
                                         quality, SLEEP_EFFICIENCY_DEFAULT)})
    /\ last' = [op |-> "add_sleep_data", result |-> NoResult]
    /\ UNCHANGED <<calls, target_sleep_hours, metrics>>

MainAddMetric ==
    /\ last.op \in {"add_sleep_data", "add_metric"}
    /\ Len(sleep_history) = MAIN_DAYS
    /\ Len(metrics) < Len(MAIN_METRICS)
    /\ LET a == MAIN_METRICS[Len(metrics) + 1]
           r == add_metric(metrics, a.name, a.value, a.lower_threshold,
                           a.upper_threshold, a.category)
       IN  /\ metrics' = r.metrics
           /\ last' = [op |-> "add_metric", result |-> r.result]
    /\ UNCHANGED <<calls, target_sleep_hours, sleep_history, added>>

MainGenerateReport ==
    /\ last.op = "add_metric"
    /\ Len(metrics) = Len(MAIN_METRICS)
    /\ \E r \in {generate_report(metrics, sleep_history, target_sleep_hours,
                       MAIN_PERIOD_START, MAIN_PERIOD_START + MAIN_DAYS - 1,
                       MainReference)} :
           /\ metrics' = r.metrics
           /\ last' = [op |-> "generate_report", result |-> r.report]
    /\ UNCHANGED <<calls, target_sleep_hours, sleep_history, added>>

MainGetTotalFlaggedCount ==
    /\ last.op = "generate_report"
    /\ GetTotalFlaggedCount

MainOptimizeHealthScore ==
    /\ last.op = "get_total_flagged_count"
    /\ OptimizeHealthScore

MainCalculateSleepDebt ==
    /\ last.op = "optimize_health_score"
    /\ last' = [op |-> "calculate_sleep_debt",
                result |-> calculate_sleep_debt(sleep_history, target_sleep_hours,
                               MAIN_PERIOD_START, MAIN_PERIOD_START + MAIN_DAYS - 1)]
    /\ UNCHANGED <<calls, target_sleep_hours, metrics, sleep_history, added>>

MainEvaluateAllMetrics ==
    /\ last.op = "calculate_sleep_debt"
    /\ EvaluateAllMetrics

NextMain ==
    \/ MainAddSleepData
    \/ MainAddMetric
    \/ MainGenerateReport
    \/ MainGetTotalFlaggedCount
    \/ MainOptimizeHealthScore
    \/ MainCalculateSleepDebt
    \/ MainEvaluateAllMetrics

SpecMain == InitMain /\ [][NextMain]_vars

-----------------------------------------------------------------------------
(* Two generate_report calls on one shared model, each a sequence of the   *)
(* steps of report_generator.py: compute the sleep-debt metric (56-59),    *)
(* scan the store for the name (62-65), replace or append (66-71),         *)
(* group the flagged metrics (74), count the flagged metrics (75), compute *)
(* the score and return (78-107).  Each step reads the store as it stands  *)
(* when the step runs: nothing holds the store between two steps.          *)
(* calls.serialized tells whether the callers run one call after the other *)
(* (a call starts only when no other call is in progress) or freely        *)
(* interleaved.                                                            *)

replace_or_append(ms, idx, sleep_debt_metric) ==
    IF idx # 0 THEN [ms EXCEPT ![idx] = sleep_debt_metric]
    ELSE Append(ms, sleep_debt_metric)

assemble_report(flagged_by_category, total_flagged, health_score, sleep_debt_metric, target, period_start, period_end, reference) ==
    [period |-> [start |-> period_start, end |-> period_end,
                 days |-> (period_end - period_start) + 1],
     reference_period |-> reference_info(reference),
     total_flagged |-> total_flagged,
     flagged_by_category |-> flagged_by_category,
     health_score |-> health_score,
     sleep_debt |-> [value |-> sleep_debt_metric.value,
                     is_flagged |-> sleep_debt_metric.is_flagged,
                     target |-> target]]

InProgress(c) == calls.frames[c].pc \notin {"idle", "done"}

InitShared ==
    /\ LiteralsAgree
    /\ target_sleep_hours \in Targets
    /\ metrics = <<>>
    /\ sleep_history = <<>>
    /\ last = [op |-> "init", result |-> NoResult]
    /\ added = EmptyBag
    /\ calls \in {[NoCalls EXCEPT !.serialized = b] : b \in BOOLEAN}

(* The data the callers share is loaded before the first call starts. *)
SharedAddSleepData ==
    /\ \A c \in Callers : calls.frames[c].pc = "idle"
    /\ AddSleepData

CallComputeSleepDebt(c) ==
    /\ calls.frames[c].pc = "idle"
    /\ calls.serialized => \A o \in Callers : ~InProgress(o)
    /\ \E period_start \in Dates, period_end \in Dates :
          calls' = [calls EXCEPT !.frames[c] =
                       [@ EXCEPT !.pc = "scan",
                                 !.period_start = period_start,
                                 !.period_end = period_end,
                                 !.sleep_debt_metric =
                                     get_sleep_debt_metric(sleep_history,
                                         target_sleep_hours, period_start,
                                         period_end, MAX_ACCEPTABLE_DEBT_DEFAULT)]]
    /\ UNCHANGED <<target_sleep_hours, metrics, sleep_history, last, added>>

CallScan(c) ==
    /\ calls.frames[c].pc = "scan"
    /\ calls' = [calls EXCEPT !.frames[c] =
                    [@ EXCEPT !.pc = "upsert",
                              !.existing_sleep_debt_idx =
                                  existing_sleep_debt_idx(metrics)]]
    /\ UNCHANGED <<target_sleep_hours, metrics, sleep_history, last, added>>

CallUpsert(c) ==
    /\ calls.frames[c].pc = "upsert"
    /\ metrics' = replace_or_append(metrics,
                      calls.frames[c].existing_sleep_debt_idx,
                      calls.frames[c].sleep_debt_metric)
    /\ calls' = [calls EXCEPT !.frames[c].pc = "evaluate"]
    /\ UNCHANGED <<target_sleep_hours, sleep_history, last, added>>

CallEvaluate(c) ==
    /\ calls.frames[c].pc = "evaluate"
    /\ calls' = [calls EXCEPT !.frames[c] =
                    [@ EXCEPT !.pc = "count",
                              !.flagged_by_category = evaluate_all_metrics(metrics)]]
    /\ UNCHANGED <<target_sleep_hours, metrics, sleep_history, last, added>>

CallCount(c) ==
    /\ calls.frames[c].pc = "count"
    /\ calls' = [calls EXCEPT !.frames[c] =
                    [@ EXCEPT !.pc = "score",
                              !.total_flagged = get_total_flagged_count(metrics)]]
    /\ UNCHANGED <<target_sleep_hours, metrics, sleep_history, last, added>>

CallScore(c) ==
    /\ calls.frames[c].pc = "score"
    /\ last' = [op |-> "generate_report",
                result |-> assemble_report(calls.frames[c].flagged_by_category,
                               calls.frames[c].total_flagged,
                               optimize_health_score(metrics),
                               calls.frames[c].sleep_debt_metric,
                               target_sleep_hours,
                               calls.frames[c].period_start,
                               calls.frames[c].period_end, NoReference)]
    /\ calls' = [calls EXCEPT !.frames[c].pc = "done"]
    /\ UNCHANGED <<target_sleep_hours, metrics, sleep_history, added>>

NextShared ==
    \/ SharedAddSleepData
    \/ \E c \in Callers : CallComputeSleepDebt(c)
    \/ \E c \in Callers : CallScan(c)
    \/ \E c \in Callers : CallUpsert(c)
    \/ \E c \in Callers : CallEvaluate(c)
    \/ \E c \in Callers : CallCount(c)
    \/ \E c \in Callers : CallScore(c)

SpecShared == InitShared /\ [][NextShared]_vars

-----------------------------------------------------------------------------
(* Shared vocabulary of the properties. *)

OutOfRange(m) ==
    FLt(m.value, m.lower_threshold) \/ FGt(m.value, m.upper_threshold)

SleepDebtPositions(ms) == {i \in 1..Len(ms) : ms[i].name = SLEEP_DEBT_NAME}

InRange(record, start_date, end_date) ==
    record.date >= start_date /\ record.date <= end_date

PositionsInRange(history, start_date, end_date) ==
    {i \in 1..Len(history) : InRange(history[i], start_date, end_date)}

(* max(target - duration, 0) in float arithmetic. *)
PositiveDeficit(record, target) ==
    LET deficit == FSub(target, record.sleep_duration_hours)
    IN  IF deficit.neg THEN F_0_0 ELSE deficit

(* The float sum, in ledger order, of the positive deficits of the first n *)
(* records that are in range.                                              *)
RECURSIVE SumDeficits(_, _, _, _, _)
SumDeficits(history, target, start_date, end_date, n) ==
    IF n = 0 THEN F_0_0
    ELSE LET before == SumDeficits(history, target, start_date, end_date, n - 1)
         IN  IF InRange(history[n], start_date, end_date)
             THEN FAdd(before, PositiveDeficit(history[n], target))
             ELSE before

(* The same sum in exact arithmetic: neither the subtractions nor the      *)
(* additions are rounded.                                                  *)
RECURSIVE ExactSumDeficits(_, _, _, _, _)
ExactSumDeficits(history, target, start_date, end_date, n) ==
    IF n = 0 THEN F_0_0
    ELSE LET before == ExactSumDeficits(history, target, start_date, end_date, n - 1)
             deficit == ExactAdd(target, FNeg(history[n].sleep_duration_hours))
         IN  IF InRange(history[n], start_date, end_date) /\ ~deficit.neg
             THEN ExactAdd(before, deficit)
             ELSE before

-----------------------------------------------------------------------------
(* C1: every metric in the store has is_flagged equal to                   *)
(* (value < lower_threshold or value > upper_threshold), also after a      *)
(* value or a threshold of a stored metric is changed in place.            *)
(* Violated: the assignment metric.value = v leaves is_flagged as it was.  *)
C1_FlagNeverStale ==
    \A i \in 1..Len(metrics) : metrics[i].is_flagged = OutOfRange(metrics[i])

-----------------------------------------------------------------------------
(* C2: calculate_sleep_debt(start, end) is the sum over exactly the        *)
(* records with start <= date <= end, duplicates each counted, of          *)
(* max(target - duration, 0), added in ledger order in float arithmetic;   *)
(* it is never negative, is 0 when no record is in range or every record   *)
(* in range meets the target; the report's sleep_debt.value is that sum    *)
(* for its period.                                                         *)
C2_SleepDebtIsSumOfPositiveDeficits ==
    /\ \A start_date \in Dates, end_date \in Dates :
          LET debt == calculate_sleep_debt(sleep_history, target_sleep_hours,
                                           start_date, end_date)
              inside == PositionsInRange(sleep_history, start_date, end_date)
          IN  /\ debt = SumDeficits(sleep_history, target_sleep_hours,
                                    start_date, end_date, Len(sleep_history))
              /\ ~debt.neg
              /\ (inside = {} => debt = F_0_0)
              /\ ((\A i \in inside :
                      FGe(sleep_history[i].sleep_duration_hours, target_sleep_hours))
                    => debt = F_0_0)
    /\ last.op = "generate_report" =>
          last.result.sleep_debt.value =
              SumDeficits(sleep_history, target_sleep_hours,
                  last.result.period.start, last.result.period.end,
                  Len(sleep_history))

(* A report for day 1 alone over a ledger holding two records of day 1,    *)
(* one below and one above the target, and a deficit record of day 2: the  *)
(* debt is the one deficit of day 1, 8.0 - 7.67.                           *)
C2_Witness ==
    /\ last.op = "generate_report"
    /\ last.result.period.start = 1 /\ last.result.period.end = 1
    /\ Len(sleep_history) = 3
    /\ sleep_history[1].date = 1 /\ sleep_history[2].date = 1
    /\ sleep_history[3].date = 2
    /\ {sleep_history[1].sleep_duration_hours,
        sleep_history[2].sleep_duration_hours} = {F_7_67, F_8_5}
    /\ sleep_history[3].sleep_duration_hours = F_7_67
    /\ last.result.sleep_debt.value = FSub(F_8_0, F_7_67)
    /\ FGt(last.result.sleep_debt.value, F_0_0)

-----------------------------------------------------------------------------
(* C3 as stated: after any generate_report call the store holds exactly    *)
(* one metric named "Sleep Debt", carrying the debt of that call's period. *)
(* Violated: add_metric accepts the name "Sleep Debt" and the upsert       *)
(* replaces only the first metric of that name.                            *)
C3_ExactlyOneSleepDebtAfterReport ==
    last.op = "generate_report" =>
        /\ Cardinality(SleepDebtPositions(metrics)) = 1
        /\ \A i \in SleepDebtPositions(metrics) :
              metrics[i].value =
                  calculate_sleep_debt(sleep_history, target_sleep_hours,
                      last.result.period.start, last.result.period.end)

(* C3 amended: after any generate_report call the store holds at least one *)
(* metric named "Sleep Debt", the first of them carries the sleep debt of  *)
(* that call's period, and it is the only one whenever the store held at   *)
(* most one metric of that name before the call.                           *)
C3_FirstSleepDebtIsLatest ==
    [][last'.op = "generate_report" =>
        LET before == SleepDebtPositions(metrics)
            after == SleepDebtPositions(metrics')
            first == CHOOSE i \in after : \A j \in after : i <= j
        IN  /\ after # {}
            /\ metrics'[first].value =
                  calculate_sleep_debt(sleep_history', target_sleep_hours',
                      last'.result.period.start, last'.result.period.end)
            /\ (Cardinality(before) <= 1 => Cardinality(after) = 1)
            /\ Cardinality(after) = (IF before = {} THEN 1 ELSE Cardinality(before))
    ]_vars

(* A report whose Sleep Debt entry sits before a later metric: the entry   *)
(* was already in the store, added by add_metric with the value 1.0, and   *)
(* was replaced by the debt of two records of 7.67 h; it is the only one.  *)
C3_Witness ==
    /\ last.op = "generate_report"
    /\ Len(metrics) = 2
    /\ SleepDebtPositions(metrics) = {1}
    /\ metrics[1].value # F_1_0
    /\ metrics[1].value = FAdd(FSub(F_8_0, F_7_67), FSub(F_8_0, F_7_67))
    /\ last.result.sleep_debt.value = metrics[1].value

-----------------------------------------------------------------------------
(* C4 as stated: for every metric, degenerate ranges included, the score   *)
(* is 0.3 or 0.7 when the metric is flagged and the clamped normalized     *)
(* value when it is not.                                                   *)
(* Violated: with upper_threshold <= lower_threshold a flagged metric      *)
(* scores 0.5.                                                             *)
ClampedNormalized(m) ==
    IF FLe(m.value, m.lower_threshold) THEN F_0_0
    ELSE IF FGe(m.value, m.upper_threshold) THEN F_1_0
    ELSE FDiv(FSub(m.value, m.lower_threshold),
              FSub(m.upper_threshold, m.lower_threshold))

C4_FlaggedScoreAlwaysCoarse ==
    \A i \in 1..Len(metrics) :
        LET m == metrics[i]
        IN  /\ m.is_flagged => metric_score(m) \in {F_0_3, F_0_7}
            /\ ~m.is_flagged =>
                  /\ m.upper_threshold # m.lower_threshold
                  /\ metric_score(m) =
                        PyMax(F_0_0, PyMin(F_1_0,
                            FDiv(FSub(m.value, m.lower_threshold),
                                 FSub(m.upper_threshold, m.lower_threshold))))

(* C4 amended: for every metric with upper_threshold > lower_threshold the *)
(* score is 0.3 or 0.7 when the metric is flagged (0.3 exactly when the    *)
(* clamped normalized value, as computed in floats, is below 0.5) and the  *)
(* clamped normalized value in [0,1] when it is not; with                  *)
(* upper_threshold <= lower_threshold the score is 0.5 when flagged and    *)
(* 1.0 when not.                                                           *)
C4_ScorePerRange ==
    \A i \in 1..Len(metrics) :
        LET m == metrics[i]
            score == metric_score(m)
        IN  IF FGt(m.upper_threshold, m.lower_threshold)
            THEN /\ m.is_flagged =>
                      /\ score \in {F_0_3, F_0_7}
                      /\ (score = F_0_3) = FLt(ClampedNormalized(m), F_0_5)
                 /\ ~m.is_flagged =>
                      /\ score = ClampedNormalized(m)
                      /\ FLe(F_0_0, score) /\ FLe(score, F_1_0)
            ELSE score = (IF m.is_flagged THEN F_0_5 ELSE F_1_0)

(* A scored store holding a metric of value 0.3 in the range [0.1, 0.5]    *)
(* whose flag is stale: its normalized value is 0.49999999999999994 in     *)
(* floats, below 0.5, and it scores 0.3; and an unflagged metric halfway   *)
(* through its range, scoring 0.5.                                         *)
C4_Witness ==
    /\ last.op = "optimize_health_score"
    /\ \E i, j \in 1..Len(metrics) :
          /\ metrics[i].is_flagged
          /\ metrics[i].value = F_0_3
          /\ metrics[i].lower_threshold = F_0_1
          /\ metrics[i].upper_threshold = F_0_5
          /\ FLt(raw_normalized(metrics[i]), F_0_5)
          /\ metric_score(metrics[i]) = F_0_3
          /\ ~metrics[j].is_flagged
          /\ metrics[j].value = F_3_0
          /\ metric_score(metrics[j]) = F_0_5

-----------------------------------------------------------------------------
(* C5: optimize_health_score returns a number in [0, 100] for every store, *)
(* unrecognized categories included, and exactly 100 for the empty store.  *)
C5_HealthScoreInRange ==
    last.op = "optimize_health_score" =>
        /\ FLe(F_0_0, last.result)
        /\ FLe(last.result, F_100_0)
        /\ (metrics = <<>> => last.result = F_100_0)

(* A score strictly inside the range over a store with an unrecognized     *)
(* category and a recognized one.                                          *)
C5_Witness ==
    /\ last.op = "optimize_health_score"
    /\ Len(metrics) = 2
    /\ {metrics[1].category, metrics[2].category} = {"Mood", "Activity"}
    /\ FLt(F_0_0, last.result)
    /\ FLt(last.result, F_100_0)

-----------------------------------------------------------------------------
(* C6: evaluate_all_metrics returns one entry per category that has a      *)
(* flagged metric, the entries in order of first flagged occurrence, each  *)
(* holding exactly the flagged metrics of its category in store order; no  *)
(* unflagged metric, no empty entry, every flagged metric exactly once.    *)
FlaggedPositions(ms, category) ==
    {i \in 1..Len(ms) : ms[i].is_flagged /\ ms[i].category = category}

FirstFlagged(ms, category) ==
    CHOOSE i \in FlaggedPositions(ms, category) :
        \A j \in FlaggedPositions(ms, category) : i <= j

RECURSIVE TotalListed(_, _)
TotalListed(d, k) ==
    IF k > Len(d) THEN 0 ELSE Len(d[k].metrics) + TotalListed(d, k + 1)

C6_FlaggedGroupedByCategory ==
    last.op = "evaluate_all_metrics" =>
        LET d == last.result
        IN  /\ \A k1, k2 \in 1..Len(d) : k1 # k2 => d[k1].category # d[k2].category
            /\ {d[k].category : k \in 1..Len(d)} =
                  {metrics[i].category :
                      i \in {j \in 1..Len(metrics) : metrics[j].is_flagged}}
            /\ \A k1, k2 \in 1..Len(d) :
                  k1 < k2 => FirstFlagged(metrics, d[k1].category)
                               < FirstFlagged(metrics, d[k2].category)
            /\ \A k \in 1..Len(d) :
                  /\ d[k].metrics # <<>>
                  /\ d[k].metrics =
                        SelectSeq(metrics,
                            LAMBDA m : m.is_flagged /\ m.category = d[k].category)
                  /\ \A j \in 1..Len(d[k].metrics) : d[k].metrics[j].is_flagged
            /\ TotalListed(d, 1) =
                  Cardinality({i \in 1..Len(metrics) : metrics[i].is_flagged})

(* Two flagged metrics of one category, different in value, listed in      *)
(* store order under a single key.                                         *)
C6_Witness ==
    /\ last.op = "evaluate_all_metrics"
    /\ Len(metrics) = 2
    /\ metrics[1].is_flagged /\ metrics[2].is_flagged
    /\ metrics[1].category = metrics[2].category
    /\ metrics[1] # metrics[2]
    /\ Len(last.result) = 1
    /\ last.result[1].metrics = metrics

-----------------------------------------------------------------------------
(* C7: the report's total_flagged, flagged_by_category and health_score    *)
(* are those of the store after the Sleep Debt upsert of the same call: a  *)
(* flagged sleep debt is listed under "Sleep" with the report's value and  *)
(* counted, and total_flagged is the total length of the lists.            *)
C7_ReportComputedAfterUpsert ==
    last.op = "generate_report" =>
        LET r == last.result
            d == r.flagged_by_category
        IN  /\ r.total_flagged = get_total_flagged_count(metrics)
            /\ d = evaluate_all_metrics(metrics)
            /\ r.health_score = optimize_health_score(metrics)
            /\ r.total_flagged = TotalListed(d, 1)
            /\ r.sleep_debt.is_flagged =>
                  /\ r.total_flagged >= 1
                  /\ \E k \in 1..Len(d) :
                        /\ d[k].category = "Sleep"
                        /\ \E j \in 1..Len(d[k].metrics) :
                              /\ d[k].metrics[j].name = SLEEP_DEBT_NAME
                              /\ d[k].metrics[j].value = r.sleep_debt.value
                              /\ d[k].metrics[j].is_flagged

(* A first report over a store holding one flagged activity metric and no  *)
(* Sleep Debt entry yet: the flagged debt it appends, that of three        *)
(* records of 7.67 h (0.9900000000000002 in floats), is counted with it.   *)
C7_Witness ==
    /\ last.op = "generate_report"
    /\ last.result.sleep_debt.is_flagged
    /\ FLt(last.result.sleep_debt.value, F_1_0)
    /\ Len(metrics) = 2
    /\ metrics[1].name = "Steps" /\ metrics[1].is_flagged
    /\ metrics[2].name = SLEEP_DEBT_NAME
    /\ last.result.total_flagged = 2
    /\ Len(last.result.flagged_by_category) = 2

-----------------------------------------------------------------------------
(* C8: with the default max_acceptable_debt the sleep-debt metric that     *)
(* generate_report obtains from get_sleep_debt_metric in main() is named   *)
(* "Sleep Debt", of category "Sleep", carries the debt of the period and   *)
(* is flagged exactly when that debt, as computed, exceeds 0.99; every     *)
(* debt of 1.0 h or more is flagged, whether the debt is taken as computed *)
(* in floats or as the exact sum of the deficits, and the lower threshold  *)
(* 0.0 never flags.                                                        *)
C8_DefaultDebtThresholdFlagsOneHour ==
    last.op = "generate_report" =>
        LET m == metrics[Len(metrics)]
            period_end == MAIN_PERIOD_START + MAIN_DAYS - 1
            debt == SumDeficits(sleep_history, target_sleep_hours,
                        MAIN_PERIOD_START, period_end, Len(sleep_history))
            exact == ExactSumDeficits(sleep_history, target_sleep_hours,
                        MAIN_PERIOD_START, period_end, Len(sleep_history))
        IN  /\ m.name = "Sleep Debt"
            /\ m.category = "Sleep"
            /\ m.value = debt
            /\ m.lower_threshold = F_0_0
            /\ m.upper_threshold = MAX_ACCEPTABLE_DEBT_DEFAULT
            /\ m.is_flagged = FGt(debt, F_0_99)
            /\ (FGe(debt, F_1_0) => m.is_flagged)
            /\ (FGe(exact, F_1_0) => m.is_flagged)
            /\ ~FLt(m.value, m.lower_threshold)
            /\ last.result.sleep_debt.value = m.value
            /\ last.result.sleep_debt.is_flagged = m.is_flagged

(* main.py: target 8.0 and seven records of 7.857 h, all in the period;    *)
(* the debt is 1.0009999999999986 in floats, above 1.0, and the metric,    *)
(* the eleventh of the store, is flagged.                                  *)
C8_Witness ==
    /\ last.op = "generate_report"
    /\ target_sleep_hours = F_8_0
    /\ Len(sleep_history) = MAIN_DAYS
    /\ \A i \in 1..MAIN_DAYS : sleep_history[i].sleep_duration_hours = F_7_857
    /\ Len(metrics) = Len(MAIN_METRICS) + 1
    /\ metrics[Len(metrics)].name = SLEEP_DEBT_NAME
    /\ FGt(metrics[Len(metrics)].value, F_1_0)
    /\ metrics[Len(metrics)].is_flagged

-----------------------------------------------------------------------------
(* C9: generate_report changes the model only at the Sleep Debt entry.     *)
(* With a metric named "Sleep Debt" in the store, the store keeps its      *)
(* length, the new metric takes the position of the first such metric and  *)
(* every other position is unchanged; with none, the new store is the old  *)
(* one with the new metric appended.  The ledger and the target are        *)
(* unchanged.                                                              *)
C9_ReportFrame ==
    [][last'.op = "generate_report" =>
        LET before == SleepDebtPositions(metrics)
            r == last'.result
            new == [name |-> SLEEP_DEBT_NAME, value |-> r.sleep_debt.value,
                    lower_threshold |-> F_0_0,
                    upper_threshold |-> MAX_ACCEPTABLE_DEBT_DEFAULT,
                    category |-> "Sleep", is_flagged |-> r.sleep_debt.is_flagged]
        IN  /\ sleep_history' = sleep_history
            /\ target_sleep_hours' = target_sleep_hours
            /\ IF before # {}
               THEN LET first == CHOOSE i \in before : \A j \in before : i <= j
                    IN  /\ Len(metrics') = Len(metrics)
                        /\ metrics'[first] = new
                        /\ \A i \in 1..Len(metrics) :
                              i # first => metrics'[i] = metrics[i]
               ELSE /\ Len(metrics') = Len(metrics) + 1
                    /\ SubSeq(metrics', 1, Len(metrics)) = metrics
                    /\ metrics'[Len(metrics')] = new
    ]_vars

(* A report over a store whose Sleep Debt entry is followed by another     *)
(* metric: the entry keeps the first position and the other its own.       *)
C9_Witness ==
    /\ last.op = "generate_report"
    /\ Len(metrics) = 2
    /\ metrics[1].name = SLEEP_DEBT_NAME
    /\ metrics[2].name = "Steps"
    /\ metrics[1].value = last.result.sleep_debt.value

-----------------------------------------------------------------------------
(* C10: sleep_history is sorted ascending by date and holds exactly the    *)
(* records added since the last reset, equal dates all retained.           *)
SeqToBag(s) ==
    [x \in {s[i] : i \in 1..Len(s)} |-> Cardinality({i \in 1..Len(s) : s[i] = x})]

C10_LedgerSortedAndComplete ==
    /\ \A i, j \in 1..Len(sleep_history) :
          i < j => sleep_history[i].date <= sleep_history[j].date
    /\ SeqToBag(sleep_history) = added
    /\ Len(sleep_history) = BagCardinality(added)

(* Three records after an add: the same record of day 1 twice and one of   *)
(* day 2.                                                                  *)
C10_Witness ==
    /\ last.op = "add_sleep_data"
    /\ Len(sleep_history) = 3
    /\ sleep_history[1] = sleep_history[2]
    /\ sleep_history[1].date = 1
    /\ sleep_history[3].date = 2

-----------------------------------------------------------------------------
(* C11: starting from a store without a metric named "Sleep Debt", two     *)
(* generate_report calls interleaved at their steps can leave two metrics  *)
(* of that name, and calls run one after the other cannot: the store holds *)
(* two such metrics only when the calls are not serialized and both        *)
(* scanned the store before either wrote to it.                            *)
C11_DuplicateOnlyWhenInterleaved ==
    LET n == Cardinality(SleepDebtPositions(metrics))
    IN  /\ calls.serialized => n <= 1
        /\ n <= Cardinality(Callers)
        /\ n >= 2 =>
              /\ ~calls.serialized
              /\ \A c \in Callers :
                    /\ calls.frames[c].pc \in {"evaluate", "count", "score", "done"}
                    /\ calls.frames[c].existing_sleep_debt_idx = 0
        /\ (\E c \in Callers : calls.frames[c].pc \in {"evaluate", "count", "score", "done"})
              => n >= 1

(* Both interleaved calls have returned and the store holds two Sleep Debt *)
(* metrics, one per call, of different periods and values.                 *)
C11_Witness ==
    /\ ~calls.serialized
    /\ \A c \in Callers : calls.frames[c].pc = "done"
    /\ Len(metrics) = 2
    /\ SleepDebtPositions(metrics) = {1, 2}
    /\ metrics[1].value # metrics[2].value
    /\ last.op = "generate_report"

-----------------------------------------------------------------------------
(* C12: the health score is higher-is-better in the sleep debt.  For the   *)
(* model of the latest report and any model that differs from it only in   *)
(* its sleep records, the report of the smaller period debt never has the  *)
(* lower health_score; and a zero debt on an otherwise empty store scores  *)
(* the best, 100.                                                          *)
(* Violated: the Sleep Debt metric is scored like every other metric, by   *)
(* its place between lower 0.0 and upper 0.99, so a debt of 0 scores 0 and *)
(* a debt of 8.0 - 7.67 scores a third of 100.                             *)
OtherLedgers ==
    {<<>>} \cup
    {<<SleepData(date, hours, SLEEP_QUALITY_DEFAULT, SLEEP_EFFICIENCY_DEFAULT)>> :
        date \in Dates, hours \in SleepHours}

C12_ScoreNeverLowerForSmallerDebt ==
    last.op = "generate_report" =>
        LET mine == last.result
        IN  /\ \A other_history \in OtherLedgers :
                  LET other == generate_report(metrics, other_history,
                                   target_sleep_hours, mine.period.start,
                                   mine.period.end, NoReference).report
                  IN  /\ FLt(mine.sleep_debt.value, other.sleep_debt.value)
                          => FLe(other.health_score, mine.health_score)
                      /\ FLt(other.sleep_debt.value, mine.sleep_debt.value)
                          => FLe(mine.health_score, other.health_score)
            /\ (Len(metrics) = 1 /\ mine.sleep_debt.value = F_0_0)
                  => mine.health_score = F_100_0

====
